---- MODULE Spec2Model ----
(***************************************************************************)
(* Rajya Sabha members API (src/main.py, src/config.py).                   *)
(*                                                                         *)
(* One request is followed through the stages FastAPI and slowapi give it: *)
(* the route's dependencies (Depends(verify_api_key) and the Query         *)
(* validation), then the @limiter.limit wrapper around the endpoint        *)
(* function, then the endpoint function itself.  Handlers share no state   *)
(* but the limiter's storage, so a handler body is one step; the places    *)
(* where it can fail are inputs of that step.                              *)
(***************************************************************************)
EXTENDS Integers, Sequences, FiniteSets, TLC

VARIABLES
    members,   \* the members table: a set of rows (read-only for the API)
    now,       \* wall clock, in seconds
    hits,      \* limiter storage: counter per (client, endpoint)
    expiry,    \* limiter storage: expiry time of that counter's window
    req,       \* the request in flight: its inputs and its position
    resp,      \* the response of the request in flight
    calls,     \* the calls the request has made so far, in order
    nreq,      \* requests received so far
    admPrev,   \* per (client, endpoint): admissions at the previous clock value
    admCur,    \* per (client, endpoint): admissions at the current clock value
    fetched    \* the rows a client paging through /members has been sent so far

vars ==
    <<members, now, hits, expiry, req, resp, calls, nreq, admPrev, admCur, fetched>>

----------------------------------------------------------------------------
(* Program constants *)

\* @limiter.limit("100/minute")
Quota == 100
Window == 60
\* page: int = Query(1, ge=1), limit: int = Query(50, ge=1, le=500)
PageMin == 1
LimitMin == 1
LimitMax == 500
\* API_KEY = os.getenv('API_KEY', '321')
API_KEY == "321"

(* Bounds of the model *)

\* requests received in a behaviour of Spec
MaxRequests == 1
\* the clock advances MaxTicks times, by Step seconds each time
Step == 30
MaxTicks == 2
\* small values of page, limit and srno tried besides the edges of the ranges
MaxPage == 3
MaxSmallLimit == 3
MaxSrno == 4
\* length of a search string
MaxQLen == 2

----------------------------------------------------------------------------
(* Data *)

Clients == {"c1", "c2"}

Protected == {"/members", "/members/{srno}", "/members/name", "/members/state",
              "/members/party", "/members/status"}
Public == {"/", "/health"}

Keys == Clients \X Protected

\* the X-API-Key header: absent, the configured secret, something else
KeyHeaders == {"absent", API_KEY, "000"}

Row(n, name, st, p, s) ==
    [srno |-> n, member_name |-> name, state_ut |-> st, party |-> p, status |-> s]

AllRows ==
    { Row(1, <<"K", "a">>, "Goa", <<"a", "b">>, "Active"),
      Row(2, <<"a", "b">>, "Goa", <<"K">>, "Inactive"),
      Row(4, <<"k", "_", "A">>, "Bihar", <<"a", "b">>, "Active") }

Tables == SUBSET AllRows

QChars == {"a", "K", "_"}
Queries == UNION { [1..n -> QChars] : n \in 1..MaxQLen }
PartyArgs == [1..1 -> QChars]
StateArgs == {"Goa", "Bihar", "Assam"}
StatusArgs == {"Active", "Inactive", "x"}

Pages == 0..MaxPage
Limits == (0..MaxSmallLimit) \cup {LimitMax, LimitMax + 1}
Srnos == 0..MaxSrno

\* every order in which the engine may hand back the rows of a table
Perms(S) ==
    { s \in [1..Cardinality(S) -> S] :
        \A i, j \in 1..Cardinality(S) : i # j => s[i] # s[j] }

----------------------------------------------------------------------------
(* The SQL the handlers send, as the engine evaluates it *)

RECURSIVE Insert(_, _, _)
\* x put into the sorted sequence s behind every element whose key is not larger
Insert(x, s, key) ==
    IF s = <<>> THEN <<x>>
    ELSE IF key[Head(s)] <= key[x] THEN <<Head(s)>> \o Insert(x, Tail(s), key)
    ELSE <<x>> \o s

\* the query without its ORDER BY: the rows as the scan produced them
OrderBy_Omitted(s, key) == s

RECURSIVE OrderBy(_, _)
\* ORDER BY key: rows of equal key stay in the order the scan produced them
OrderBy(s, key) ==
    IF s = <<>> THEN <<>>
    ELSE Insert(s[Len(s)], OrderBy(SubSeq(s, 1, Len(s) - 1), key), key)

\* LIMIT n OFFSET o
LimitOffset(s, n, o) ==
    SubSeq(s, o + 1, IF o + n <= Len(s) THEN o + n ELSE Len(s))

\* the members table's text columns compare without regard to case
Fold(ch) ==
    CASE ch = "A" -> "a"
      [] ch = "B" -> "b"
      [] ch = "K" -> "k"
      [] OTHER -> ch

Weight(ch) ==
    CASE Fold(ch) = "_" -> 2
      [] Fold(ch) = "a" -> 3
      [] Fold(ch) = "b" -> 4
      [] OTHER -> 5

RECURSIVE NameKey(_, _)
\* a number that orders texts of at most n characters as the collation does
NameKey(text, n) ==
    IF n = 0 THEN 0
    ELSE IF text = <<>> THEN 0
    ELSE Weight(Head(text)) * (6 ^ (n - 1)) + NameKey(Tail(text), n - 1)

MaxNameLen == 3

BySrno == [r \in AllRows |-> r.srno]
ByMemberName == [r \in AllRows |-> NameKey(r.member_name, MaxNameLen)]

RECURSIVE Like(_, _)
\* text LIKE pat: % stands for any run of characters, _ for any one character
Like(text, pat) ==
    IF pat = <<>> THEN text = <<>>
    ELSE IF Head(pat) = "%"
         THEN Like(text, Tail(pat)) \/ (text # <<>> /\ Like(Tail(text), pat))
    ELSE IF Head(pat) = "_"
         THEN text # <<>> /\ Like(Tail(text), Tail(pat))
    ELSE text # <<>> /\ Fold(Head(text)) = Fold(Head(pat))
                     /\ Like(Tail(text), Tail(pat))

\* f"%{member_name}%"
Contains(q) == <<"%">> \o q \o <<"%">>

----------------------------------------------------------------------------
(* Authenticator and rate limiter *)

\* auth.verify_api_key: passes iff the header is present and equals the secret
verify_api_key(header) ==
    IF header = "absent" THEN "missing"
    ELSE IF header = API_KEY THEN "ok"
    ELSE "invalid"

\* the status an authentication failure is answered with
AuthStatuses == {401, 403}

\* a route declared without Depends(verify_api_key)
RouteDependencies_None(ep) == <<>>

\* what each route declares in its signature besides its parameters
RouteDependencies(ep) ==
    IF ep \in Protected THEN <<"verify_api_key">> ELSE <<>>

\* the limiter as a middleware in front of the router
Pipeline_LimiterFirst == <<"limiter", "dependencies", "body">>

\* the stages of a protected route, in the order they run: FastAPI resolves the
\* dependencies and validates the parameters, then calls the endpoint function
\* it was given, which is the one @limiter.limit wrapped
Pipeline == <<"dependencies", "limiter", "body">>

StageAfter(stage) ==
    IF \E i \in 1..(Len(Pipeline) - 1) : Pipeline[i] = stage
    THEN Pipeline[(CHOOSE i \in 1..(Len(Pipeline) - 1) : Pipeline[i] = stage) + 1]
    ELSE "done"

\* Limiter(key_func=get_remote_address), one counter per decorated function
LimitKey(client, ep) == <<client, ep>>

\* the storage's read: a counter whose window has run out counts as absent
StorageGet(k) == IF expiry[k] <= now THEN 0 ELSE hits[k]

\* the counter after this hit
HitCount(k) == StorageGet(k) + 1

\* the window's end after this hit: set by the hit that starts a window
HitExpiry(k) == IF HitCount(k) = 1 THEN now + Window ELSE expiry[k]

\* the comparison off by one: the hit after the last allowed one passes
WithinLimit_OffByOne(count) == count <= Quota + 1

\* "100/minute": the hit is within the limit
WithinLimit(count) == count <= Quota

----------------------------------------------------------------------------
(* Responses *)

NoBody ==
    [kind |-> "none", detail |-> "", total |-> 0, page |-> 0, limit |-> 0,
     total_pages |-> 0, echo |-> "", count |-> 0, data |-> <<>>]

Detail(text) == [NoBody EXCEPT !.kind = "detail", !.detail = text]

Listing(data) == [NoBody EXCEPT !.kind = "list", !.count = Len(data), !.data = data]

\* the same with the filter's value repeated in front
Echoed(arg, data) == [Listing(data) EXCEPT !.echo = arg]

\* what a handler's run leaves: the response and the calls it made
Outcome(status, unhandled, body, made) ==
    [status |-> status, unhandled |-> unhandled, body |-> body, made |-> made]

\* an exception no handler of the application catches: the server answers 500
Unhandled(made) == Outcome(500, TRUE, NoBody, made)

\* raise HTTPException(status_code=..., detail=...)
Raised(status, text, made) == Outcome(status, FALSE, Detail(text), made)

\* the calls of a try block whose step number fault raises (0: none does)
Attempted(steps, fault) ==
    IF fault = 0 THEN steps ELSE SubSeq(steps, 1, fault)

\* an except clause that answers with an empty result instead of raising
GenericExcept_Swallow(made, closeFails) ==
    Outcome(200, FALSE,
            [kind |-> "list", detail |-> "", total |-> 0, page |-> 0, limit |-> 0,
             total_pages |-> 0, echo |-> "", count |-> 0, data |-> <<>>],
            made \o <<"close_connection">>)

\* except Exception as e: close_connection(conn); raise HTTPException(500)
GenericExcept(made, closeFails) ==
    IF closeFails
    THEN Unhandled(made \o <<"close_connection">>)
    ELSE Raised(500, "Error", made \o <<"close_connection">>)

\* conn = get_database_connection(); if not conn: raise HTTPException(500)
NoConnection(acq) ==
    IF acq = "raise"
    THEN Unhandled(<<"get_database_connection">>)
    ELSE Raised(500, "Database connection failed", <<"get_database_connection">>)

----------------------------------------------------------------------------
(* The handlers.  acq is what get_database_connection does ("conn": returns a  *)
(* connection, "none": returns None, "raise": raises), fault the step of the   *)
(* try block that raises (0: none), closeFails whether close_connection raises *)
(* in the except clause, scan the order in which the engine reads the table.   *)

Acquired == <<"get_database_connection">>

AllMembersSteps ==
    <<"cursor", "execute", "fetchone", "execute", "fetchall", "cursor.close",
      "close_connection">>

OneRowSteps ==
    <<"cursor", "execute", "fetchone", "cursor.close", "close_connection">>

\* def home()
home == Outcome(200, FALSE, [NoBody EXCEPT !.kind = "home"], <<>>)

\* def health_check()
health_check(acq, closeFails) ==
    IF acq = "raise" THEN Unhandled(Acquired)
    ELSE IF acq = "none"
    THEN Outcome(200, FALSE, [NoBody EXCEPT !.kind = "unhealthy"], Acquired)
    ELSE IF closeFails THEN Unhandled(Acquired \o <<"close_connection">>)
    ELSE Outcome(200, FALSE, [NoBody EXCEPT !.kind = "healthy"],
                 Acquired \o <<"close_connection">>)

\* get_all_members with total_pages rounded down
get_all_members_FloorPages(acq, fault, closeFails, scan, page, limit) ==
    IF acq # "conn" THEN NoConnection(acq)
    ELSE IF fault # 0
    THEN GenericExcept(Acquired \o Attempted(AllMembersSteps, fault), closeFails)
    ELSE LET total_count == Len(scan)
             offset == (page - 1) * limit
             data == LimitOffset(OrderBy(scan, BySrno), limit, offset)
         IN  Outcome(200, FALSE,
                     [NoBody EXCEPT !.kind = "page", !.total = total_count,
                                    !.page = page, !.limit = limit,
                                    !.total_pages = total_count \div limit,
                                    !.data = data],
                     Acquired \o AllMembersSteps)

\* def get_all_members(request, page, limit, api_key)
get_all_members(acq, fault, closeFails, scan, page, limit) ==
    IF acq # "conn" THEN NoConnection(acq)
    ELSE IF fault # 0
    THEN GenericExcept(Acquired \o Attempted(AllMembersSteps, fault), closeFails)
    ELSE LET total_count == Len(scan)
             offset == (page - 1) * limit
             data == LimitOffset(OrderBy(scan, BySrno), limit, offset)
         IN  Outcome(200, FALSE,
                     [NoBody EXCEPT !.kind = "page", !.total = total_count,
                                    !.page = page, !.limit = limit,
                                    !.total_pages = (total_count + limit - 1) \div limit,
                                    !.data = data],
                     Acquired \o AllMembersSteps)

\* get_member_by_srno without its "except HTTPException: raise": the 404 is
\* caught by the generic clause
get_member_by_srno_No404Clause(acq, fault, closeFails, scan, srno) ==
    IF acq # "conn" THEN NoConnection(acq)
    ELSE IF fault # 0
    THEN GenericExcept(Acquired \o Attempted(OneRowSteps, fault), closeFails)
    ELSE LET Test(r) == r.srno = srno
             rows == SelectSeq(scan, Test)
         IN  IF rows = <<>>
             THEN GenericExcept(Acquired \o OneRowSteps, closeFails)
             ELSE Outcome(200, FALSE,
                          [NoBody EXCEPT !.kind = "row", !.data = <<Head(rows)>>],
                          Acquired \o OneRowSteps)

\* def get_member_by_srno(request, srno, api_key)
get_member_by_srno(acq, fault, closeFails, scan, srno) ==
    IF acq # "conn" THEN NoConnection(acq)
    ELSE IF fault # 0
    THEN GenericExcept(Acquired \o Attempted(OneRowSteps, fault), closeFails)
    ELSE LET Test(r) == r.srno = srno
             rows == SelectSeq(scan, Test)
         IN  IF rows = <<>>
             \* raised inside the try block; except HTTPException: raise
             THEN Raised(404, "Member not found", Acquired \o OneRowSteps)
             ELSE Outcome(200, FALSE,
                          [NoBody EXCEPT !.kind = "row", !.data = <<Head(rows)>>],
                          Acquired \o OneRowSteps)

ListSteps ==
    <<"cursor", "execute", "fetchall", "cursor.close", "close_connection">>

\* def get_members_by_name(request, member_name, api_key)
get_members_by_name(acq, fault, closeFails, scan, member_name) ==
    IF acq # "conn" THEN NoConnection(acq)
    ELSE IF fault # 0
    THEN GenericExcept(Acquired \o Attempted(ListSteps, fault), closeFails)
    ELSE LET Test(r) == Like(r.member_name, Contains(member_name))
         IN  Outcome(200, FALSE, Listing(SelectSeq(scan, Test)),
                     Acquired \o ListSteps)

\* def get_members_by_state(request, state_ut, api_key)
get_members_by_state(acq, fault, closeFails, scan, state_ut) ==
    IF acq # "conn" THEN NoConnection(acq)
    ELSE IF fault # 0
    THEN GenericExcept(Acquired \o Attempted(ListSteps, fault), closeFails)
    ELSE LET Test(r) == r.state_ut = state_ut
         IN  Outcome(200, FALSE,
                     Echoed(state_ut, OrderBy(SelectSeq(scan, Test), ByMemberName)),
                     Acquired \o ListSteps)

\* def get_members_by_party(request, party, api_key)
get_members_by_party(acq, fault, closeFails, scan, party) ==
    IF acq # "conn" THEN NoConnection(acq)
    ELSE IF fault # 0
    THEN GenericExcept(Acquired \o Attempted(ListSteps, fault), closeFails)
    ELSE LET Test(r) == Like(r.party, Contains(party))
         IN  Outcome(200, FALSE,
                     Echoed(party, OrderBy(SelectSeq(scan, Test), ByMemberName)),
                     Acquired \o ListSteps)

\* def get_members_by_status(request, status, api_key)
get_members_by_status(acq, fault, closeFails, scan, status) ==
    IF acq # "conn" THEN NoConnection(acq)
    ELSE IF fault # 0
    THEN GenericExcept(Acquired \o Attempted(ListSteps, fault), closeFails)
    ELSE LET Test(r) == r.status = status
         IN  Outcome(200, FALSE,
                     Echoed(status, OrderBy(SelectSeq(scan, Test), ByMemberName)),
                     Acquired \o ListSteps)

----------------------------------------------------------------------------
(* Requests *)

Args(page, limit, srno, q, val) ==
    [page |-> page, limit |-> limit, srno |-> srno, q |-> q, val |-> val]

NoArgs == Args(0, 0, 0, <<>>, "")

\* the parameters a request to ep can carry
RequestsTo(ep) ==
    CASE ep = "/members" ->
             { Args(p, l, 0, <<>>, "") : p \in Pages, l \in Limits }
      [] ep = "/members/{srno}" -> { Args(0, 0, n, <<>>, "") : n \in Srnos }
      [] ep = "/members/name" -> { Args(0, 0, 0, q, "") : q \in Queries }
      [] ep = "/members/party" -> { Args(0, 0, 0, q, "") : q \in PartyArgs }
      [] ep = "/members/state" -> { Args(0, 0, 0, <<>>, v) : v \in StateArgs }
      [] ep = "/members/status" -> { Args(0, 0, 0, <<>>, v) : v \in StatusArgs }
      [] OTHER -> { NoArgs }

\* Query(1, ge=1) and Query(50, ge=1, le=500)
ValidQuery(ep, args) ==
    ep = "/members" =>
        /\ args.page >= PageMin
        /\ args.limit >= LimitMin
        /\ args.limit <= LimitMax

NoReq ==
    [pc |-> "idle", client |-> "c1", ep |-> "/", key |-> "absent", args |-> NoArgs]

NoResp ==
    [status |-> 0, unhandled |-> FALSE, body |-> NoBody,
     acq |-> "n/a", fault |-> 0, closeFails |-> FALSE]

\* what the database may do to one request whose try block has these steps
Envs(steps) ==
    { [acq |-> "conn", fault |-> f, closeFails |-> b] :
        f \in 0..Len(steps), b \in {FALSE} }
    \cup { [acq |-> "conn", fault |-> f, closeFails |-> TRUE] :
        f \in 1..Len(steps) }
    \cup { [acq |-> a, fault |-> 0, closeFails |-> FALSE] : a \in {"none", "raise"} }

\* the database works
Sound == { [acq |-> "conn", fault |-> 0, closeFails |-> FALSE] }

Zero == [k \in Keys |-> 0]

\* a request arrives and the router matches its path
Receive(c, ep, key, args) ==
    /\ req.pc \in {"idle", "done"}
    /\ req' = [pc |-> IF ep \in Protected THEN Pipeline[1] ELSE "body",
               client |-> c, ep |-> ep, key |-> key, args |-> args]
    /\ resp' = NoResp
    /\ calls' = <<>>
    /\ UNCHANGED <<members, now, hits, expiry, admPrev, admCur, fetched>>

\* the response leaves: the request is over
Answer(status, unhandled, body, made) ==
    /\ req' = [req EXCEPT !.pc = "done"]
    /\ resp' = [resp EXCEPT !.status = status, !.unhandled = unhandled,
                            !.body = body]
    /\ calls' = calls \o made

\* FastAPI resolves the route's dependencies, then validates its parameters
Dependencies ==
    /\ req.pc = "dependencies"
    /\ LET deps == RouteDependencies(req.ep)
           checked == \E i \in 1..Len(deps) : deps[i] = "verify_api_key"
       IN  IF checked /\ verify_api_key(req.key) # "ok"
           THEN \E st \in AuthStatuses :
                    Answer(st, FALSE, Detail("Invalid or missing API key"), deps)
           ELSE IF ~ValidQuery(req.ep, req.args)
           THEN Answer(422, FALSE, Detail("validation error"), deps)
           ELSE /\ req' = [req EXCEPT !.pc = StageAfter("dependencies")]
                /\ calls' = calls \o deps
                /\ UNCHANGED resp
    /\ UNCHANGED <<members, now, hits, expiry, nreq, admPrev, admCur, fetched>>

\* the @limiter.limit wrapper: one hit on the client's counter for this route
RateLimit ==
    /\ req.pc = "limiter"
    /\ LET k == LimitKey(req.client, req.ep)
           count == HitCount(k)
       IN  /\ hits' = [hits EXCEPT ![k] = count]
           /\ expiry' = [expiry EXCEPT ![k] = HitExpiry(k)]
           /\ IF WithinLimit(count)
              THEN /\ req' = [req EXCEPT !.pc = StageAfter("limiter")]
                   /\ calls' = calls \o <<"limiter">>
                   /\ admCur' = [admCur EXCEPT ![<<req.client, req.ep>>] = @ + 1]
                   /\ UNCHANGED resp
              ELSE /\ Answer(429, FALSE, Detail("Rate limit exceeded"), <<"limiter">>)
                   /\ UNCHANGED admCur
    /\ UNCHANGED <<members, now, nreq, admPrev, fetched>>

\* the endpoint function runs and its result, or its exception, is answered
Run(ep, e, out) ==
    /\ req.pc = "body"
    /\ req.ep = ep
    /\ req' = [req EXCEPT !.pc = "done"]
    /\ resp' = [status |-> out.status, unhandled |-> out.unhandled,
                body |-> out.body, acq |-> e.acq, fault |-> e.fault,
                closeFails |-> e.closeFails]
    /\ calls' = calls \o out.made
    /\ UNCHANGED <<members, now, hits, expiry, nreq, admPrev, admCur>>

\* what the database may do to the health probe
HealthEnvs ==
    { [acq |-> "conn", fault |-> 0, closeFails |-> b] : b \in BOOLEAN }
    \cup { [acq |-> a, fault |-> 0, closeFails |-> FALSE] : a \in {"none", "raise"} }

Handle_home ==
    /\ Run("/", [acq |-> "n/a", fault |-> 0, closeFails |-> FALSE], home)
    /\ UNCHANGED fetched

Handle_health_check ==
    /\ \E e \in HealthEnvs : Run("/health", e, health_check(e.acq, e.closeFails))
    /\ UNCHANGED fetched

Handle_get_all_members(db) ==
    /\ \E e \in db \cap Envs(AllMembersSteps), scan \in Perms(members) :
           Run("/members", e,
               get_all_members(e.acq, e.fault, e.closeFails, scan,
                               req.args.page, req.args.limit))
    /\ UNCHANGED fetched

Handle_get_member_by_srno(db) ==
    /\ \E e \in db \cap Envs(OneRowSteps), scan \in Perms(members) :
           Run("/members/{srno}", e,
               get_member_by_srno(e.acq, e.fault, e.closeFails, scan, req.args.srno))
    /\ UNCHANGED fetched

Handle_get_members_by_name(db) ==
    /\ \E e \in db \cap Envs(ListSteps), scan \in Perms(members) :
           Run("/members/name", e,
               get_members_by_name(e.acq, e.fault, e.closeFails, scan, req.args.q))
    /\ UNCHANGED fetched

Handle_get_members_by_state(db) ==
    /\ \E e \in db \cap Envs(ListSteps), scan \in Perms(members) :
           Run("/members/state", e,
               get_members_by_state(e.acq, e.fault, e.closeFails, scan, req.args.val))
    /\ UNCHANGED fetched

Handle_get_members_by_party(db) ==
    /\ \E e \in db \cap Envs(ListSteps), scan \in Perms(members) :
           Run("/members/party", e,
               get_members_by_party(e.acq, e.fault, e.closeFails, scan, req.args.q))
    /\ UNCHANGED fetched

Handle_get_members_by_status(db) ==
    /\ \E e \in db \cap Envs(ListSteps), scan \in Perms(members) :
           Run("/members/status", e,
               get_members_by_status(e.acq, e.fault, e.closeFails, scan, req.args.val))
    /\ UNCHANGED fetched

\* time passes
Tick ==
    /\ now + Step <= MaxTicks * Step
    /\ now' = now + Step
    /\ admPrev' = admCur
    /\ admCur' = Zero
    /\ UNCHANGED <<members, hits, expiry, req, resp, calls, nreq, fetched>>

----------------------------------------------------------------------------
(* Spec: every endpoint, a database that may fail at any step.  The behaviour  *)
(* starts in a minute in which client c1 has been admitted Quota times to each *)
(* protected endpoint and client c2 has sent nothing.                          *)

Init ==
    /\ members \in Tables
    /\ now = 0
    /\ hits = [k \in Keys |-> IF k[1] = "c1" THEN Quota ELSE 0]
    /\ expiry = [k \in Keys |-> IF k[1] = "c1" THEN Window ELSE 0]
    /\ req = NoReq
    /\ resp = NoResp
    /\ calls = <<>>
    /\ nreq = 0
    /\ admPrev = Zero
    /\ admCur = [k \in Keys |-> IF k[1] = "c1" THEN Quota ELSE 0]
    /\ fetched = <<>>

\* the response has been sent and the request is forgotten
Finish ==
    /\ req.pc = "done"
    /\ req' = NoReq
    /\ resp' = NoResp
    /\ calls' = <<>>
    /\ UNCHANGED <<members, now, hits, expiry, nreq, admPrev, admCur, fetched>>

Arrive ==
    \E c \in Clients, ep \in Protected \cup Public, key \in KeyHeaders :
        \E args \in RequestsTo(ep) :
            /\ req.pc = "idle"
            /\ nreq < MaxRequests
            /\ nreq' = nreq + 1
            /\ Receive(c, ep, key, args)

Next ==
    \/ Arrive
    \/ Dependencies
    \/ RateLimit
    \/ Handle_home
    \/ Handle_health_check
    \/ Handle_get_all_members(Envs(AllMembersSteps))
    \/ Handle_get_member_by_srno(Envs(OneRowSteps))
    \/ Handle_get_members_by_name(Envs(ListSteps))
    \/ Handle_get_members_by_state(Envs(ListSteps))
    \/ Handle_get_members_by_party(Envs(ListSteps))
    \/ Handle_get_members_by_status(Envs(ListSteps))
    \/ Finish

Spec == Init /\ [][Next]_vars

----------------------------------------------------------------------------
(* SpecRate: the limiter from construction on, as the clock advances.  One     *)
(* client calls one route with any key, the database works; the client sends   *)
(* until it has been turned away once in the running window.                   *)

RateRoute == "/members/status"
RateClient == "c1"

InitRate ==
    /\ members = AllRows
    /\ now = 0
    /\ hits = Zero
    /\ expiry = Zero
    /\ req = NoReq
    /\ resp = NoResp
    /\ calls = <<>>
    /\ nreq = 0
    /\ admPrev = Zero
    /\ admCur = Zero
    /\ fetched = <<>>

ArriveRate ==
    \E key \in KeyHeaders :
        /\ StorageGet(<<RateClient, RateRoute>>) <= Quota
        /\ UNCHANGED nreq
        /\ Receive(RateClient, RateRoute, key, Args(0, 0, 0, <<>>, "Active"))

NextRate ==
    \/ ArriveRate
    \/ Dependencies
    \/ RateLimit
    \/ Handle_get_members_by_status(Sound)
    \/ Tick

SpecRate == InitRate /\ [][NextRate]_vars

----------------------------------------------------------------------------
(* SpecPages: a client with the key pages through /members, page 1, 2, ... of  *)
(* one limit, while the table stays as it is and the database works.           *)

PageClient == "c2"
\* pages requested past the last one
MaxBeyond == 2

InitPages ==
    /\ members \in Tables
    /\ now = 0
    /\ hits = Zero
    /\ expiry = Zero
    /\ \E l \in (1..MaxSmallLimit) \cup {LimitMax} :
           req = [pc |-> Pipeline[1], client |-> PageClient, ep |-> "/members",
                  key |-> API_KEY, args |-> Args(1, l, 0, <<>>, "")]
    /\ resp = NoResp
    /\ calls = <<>>
    /\ nreq = 0
    /\ admPrev = Zero
    /\ admCur = Zero
    /\ fetched = <<>>

\* the next page is asked for
ArrivePage ==
    /\ req.pc = "done"
    /\ resp.status = 200
    /\ req.args.page < resp.body.total_pages + MaxBeyond
    /\ UNCHANGED nreq
    /\ Receive(req.client, req.ep, req.key,
               [req.args EXCEPT !.page = req.args.page + 1])

\* the page arrives and the client appends its rows
FetchPage ==
    /\ \E scan \in Perms(members) :
           Run("/members", CHOOSE e \in Sound : TRUE,
               get_all_members("conn", 0, FALSE, scan,
                               req.args.page, req.args.limit))
    /\ fetched' = fetched \o resp'.body.data

NextPages ==
    \/ ArrivePage
    \/ Dependencies
    \/ RateLimit
    \/ FetchPage

SpecPages == InitPages /\ [][NextPages]_vars

----------------------------------------------------------------------------
(* Properties *)

Count(seq, x) == Cardinality({ i \in DOMAIN seq : seq[i] = x })
Made(x) == \E i \in DOMAIN calls : calls[i] = x
Done == req.pc = "done"
\* the request in flight got into its endpoint function and that has returned
Handled == Done /\ resp.acq # "n/a"

DataCalls ==
    {"get_database_connection", "cursor", "execute", "fetchone", "fetchall",
     "cursor.close", "close_connection"}

\* C1: every request to a protected handler that acquired a connection has
\* called close_connection on it exactly once when its response or error
\* leaves the handler, on every exit path, the failure of cursor.close or of
\* close_connection itself included.
C1_ReleasedExactlyOnce ==
    (Handled /\ req.ep \in Protected /\ resp.acq = "conn")
        => Count(calls, "close_connection") = 1

\* C2: a request to a protected endpoint whose X-API-Key is missing or differs
\* from the secret makes no data access at any point, and its response is 401
\* or 403, whatever the client's counter in the limiter is.
C2_NoDataAccessWithoutKey ==
    (req.pc # "idle" /\ req.ep \in Protected /\ req.key # API_KEY)
        => /\ \A i \in DOMAIN calls : calls[i] \notin DataCalls
           /\ Done => resp.status \in {401, 403}

\* a keyless request of the client that has used up its quota was answered 401/403
C2_Witness ==
    /\ Done
    /\ req.ep \in Protected
    /\ req.key = "000"
    /\ resp.status \in {401, 403}
    /\ StorageGet(<<req.client, req.ep>>) >= Quota

AdmittedInWindow(k) ==
    admCur[k] + (IF expiry[k] - Window <= now - Step THEN admPrev[k] ELSE 0)

Rank(call) ==
    CASE call = "verify_api_key" -> 1
      [] call = "limiter" -> 2
      [] call = "get_database_connection" -> 3
      [] call = "close_connection" -> 5
      [] OTHER -> 4

IsCeil(n, t, l) == n * l >= t /\ (n - 1) * l < t

\* C5: for page >= 1 and 1 <= limit <= 500 a GET /members that the database
\* serves is answered 200 with total_pages = ceil(total_count / limit), which
\* is 0 for the empty table, and with at most limit rows.
C5_TotalPages ==
    (Handled /\ req.ep = "/members")
        => /\ req.args.page >= 1 /\ req.args.limit \in 1..LimitMax
           /\ (resp.acq = "conn" /\ resp.fault = 0) => resp.status = 200
           /\ resp.status = 200 =>
                /\ resp.body.total = Cardinality(members)
                /\ resp.body.limit = req.args.limit
                /\ IsCeil(resp.body.total_pages, resp.body.total, req.args.limit)
                /\ resp.body.total = 0 => resp.body.total_pages = 0
                /\ Len(resp.body.data) <= req.args.limit

\* three members in pages of two: two pages, the second with one row
C5_Witness ==
    /\ Handled
    /\ req.ep = "/members"
    /\ resp.status = 200
    /\ resp.body.total = 3
    /\ req.args.limit = 2
    /\ req.args.page = 2
    /\ resp.body.total_pages = 2
    /\ Len(resp.body.data) = 1

\* C6: GET /members/{srno} with the valid key, admitted, with a connection
\* that works: 404 "Member not found" (not 500) if no row has that srno, else
\* 200 with exactly that row.
C6_RowOr404 ==
    (Handled /\ req.ep = "/members/{srno}" /\ resp.acq = "conn" /\ resp.fault = 0)
        => IF \E r \in members : r.srno = req.args.srno
           THEN /\ resp.status = 200
                /\ resp.body.kind = "row"
                /\ resp.body.data =
                       <<CHOOSE r \in members : r.srno = req.args.srno>>
           ELSE /\ resp.status = 404
                /\ ~resp.unhandled
                /\ resp.body.detail = "Member not found"
                /\ Count(calls, "close_connection") = 1

\* a srno between those of two members was answered 404
C6_Witness ==
    /\ Handled
    /\ req.ep = "/members/{srno}"
    /\ resp.status = 404
    /\ \E r \in members : r.srno < req.args.srno
    /\ \E r \in members : r.srno > req.args.srno

\* q occurs in text, case ignored
IsSubstring(q, text) ==
    \E i \in 1..(Len(text) - Len(q) + 1) :
        \A j \in 1..Len(q) : Fold(text[i + j - 1]) = Fold(q[j])

\* C7: GET /members/name/{q} returns exactly the members whose member_name
\* contains q as a substring, case ignored, also for q with % or _ in it, and
\* count is the number of rows returned.
C7_ExactlyTheSubstringMatches ==
    (Handled /\ req.ep = "/members/name" /\ resp.status = 200)
        => /\ { resp.body.data[i] : i \in DOMAIN resp.body.data }
                = { r \in members : IsSubstring(req.args.q, r.member_name) }
           /\ resp.body.count = Len(resp.body.data)

\* C8: GET /health always ends with a normal response: healthy when a
\* connection was acquired, which is then released, unhealthy otherwise, also
\* when get_database_connection or close_connection raises.
C8_HealthAlwaysAnswers ==
    (Handled /\ req.ep = "/health")
        => /\ ~resp.unhandled
           /\ resp.status = 200
           /\ resp.body.kind = (IF resp.acq = "conn" THEN "healthy" ELSE "unhealthy")
           /\ resp.acq = "conn" => Count(calls, "close_connection") = 1

\* the queries a handler sends when nothing fails
QueriesOf(ep) == IF ep = "/members" THEN 2 ELSE 1

\* C9: a request that reaches a protected handler tries once to acquire a
\* connection; if that fails the answer is 500 with no query and no
\* close_connection; if a step of the query fails the answer is 500; no failure
\* ends in a 200, a second acquisition or a query sent again.
C9_NoRetry ==
    req.ep \in Protected =>
        /\ Count(calls, "get_database_connection") <= 1
        /\ Handled =>
            /\ Count(calls, "get_database_connection") = 1
            /\ Count(calls, "execute") <= QueriesOf(req.ep)
            /\ resp.acq # "conn" =>
                /\ resp.status = 500
                /\ ~Made("execute")
                /\ ~Made("close_connection")
            /\ resp.fault # 0 => resp.status = 500
            /\ resp.status \in {200, 404} => (resp.acq = "conn" /\ resp.fault = 0)

\* a request failed with 500 on a query step after the first query of /members
C9_Witness ==
    /\ Handled
    /\ req.ep = "/members"
    /\ resp.acq = "conn"
    /\ resp.fault = 4
    /\ resp.status = 500
    /\ Count(calls, "execute") = 2

\* the members in ascending srno
Ascending ==
    CHOOSE s \in Perms(members) :
        \A i, j \in DOMAIN s : i < j => s[i].srno < s[j].srno

Least(a, b) == IF a <= b THEN a ELSE b

\* C10: while the table is unchanged, page p of GET /members with one limit
\* holds the rows at positions (p-1)*limit+1 .. p*limit of the srno ordering;
\* the pages 1..total_pages put together are every member once in ascending
\* srno; a page past total_pages is a 200 with no rows and the same total.
C10_PagesPartition ==
    (Handled /\ req.ep = "/members")
        => LET p == req.args.page
               l == req.args.limit
               n == Cardinality(members)
               data == resp.body.data
           IN  /\ resp.status = 200
               /\ resp.body.total = n
               /\ data = SubSeq(Ascending, Least((p - 1) * l, n) + 1, Least(p * l, n))
               /\ fetched = SubSeq(Ascending, 1, Least(p * l, n))
               /\ p >= resp.body.total_pages => fetched = Ascending
               /\ p > resp.body.total_pages => data = <<>>

\* the page after the last of three one-row pages came back empty
C10_Witness ==
    /\ Handled
    /\ req.ep = "/members"
    /\ resp.status = 200
    /\ resp.body.total_pages = 3
    /\ req.args.page = 4
    /\ resp.body.data = <<>>
    /\ Len(fetched) = 3

====
